---- MODULE Spec2Model ----
(***************************************************************************)
(* Model of the niconico login crate (src/src/lib.rs).                     *)
(*                                                                         *)
(* Header values are sequences of bytes (0..255).  A header collection is  *)
(* the sequence of (name, value) entries in the order they were appended.  *)
(* Three specifications are given:                                         *)
(*   ScanSpec  - parse_response_header applied to every bounded collection *)
(*   LoginSpec - one call of login against every bounded response          *)
(*   Spec      - NumCalls concurrent calls of login                        *)
(***************************************************************************)
EXTENDS Integers, Sequences, FiniteSets

VARIABLES
    headers,      \* ScanSpec: the header collection handed to the scanner
    out,          \* ScanSpec: the scanner's return value, NoResult before it ran
    credentials,  \* per call: the Credentials argument, Moved once consumed
    params,       \* per call: the form body map (password, mail_tel)
    client,       \* per call: the reqwest client built by the call
    pc,           \* per call: position in login
    wire,         \* the POST requests issued so far, in order
    res,          \* per call: the response received, NoResponse before
    scans,        \* per call: how many times parse_response_header ran
    result        \* per call: the LoginResult returned, NoResult before

vars == <<headers, out, credentials, params, client, pc, wire, res, scans, result>>

scanVars == <<headers, out>>
loginVars == <<credentials, params, client, pc, wire, res, scans, result>>

----------------------------------------------------------------------------
(* Bounds *)

MaxHdrs == 3      \* ScanSpec, LoginSpec: longest header collection
NumCalls == 2     \* Spec: concurrent calls of login
RespLen == 2      \* Spec: longest header collection of a response

----------------------------------------------------------------------------
(* Bytes and header values *)

\* "user_session=user_session_"
CookiePrefix ==
    <<117, 115, 101, 114, 95, 115, 101, 115, 115, 105, 111, 110, 61,
      117, 115, 101, 114, 95, 115, 101, 115, 115, 105, 111, 110, 95>>

\* "user_session=user_session_123"
V_123 == CookiePrefix \o <<49, 50, 51>>
\* "user_session=user_session_abc; Path=/"
V_abc_path == CookiePrefix \o <<97, 98, 99, 59, 32, 80, 97, 116, 104, 61, 47>>
\* "user_session=user_session_"
V_bare == CookiePrefix
\* "different_cookie=value"
V_different ==
    <<100, 105, 102, 102, 101, 114, 101, 110, 116, 95, 99, 111, 111, 107,
      105, 101, 61, 118, 97, 108, 117, 101>>
\* "user_session=user_session" (one byte short of the prefix)
V_short == SubSeq(CookiePrefix, 1, Len(CookiePrefix) - 1)
\* " user_session=user_session_123" (the prefix at index 1)
V_shifted == <<32>> \o V_123
\* the single byte 0xFF
V_ff == <<255>>
\* "user_session=user_session_" followed by the byte 0xFF
V_prefix_ff == CookiePrefix \o <<255>>

SET_COOKIE == "set-cookie"
LOCATION == "location"

HeaderNames == {SET_COOKIE, LOCATION}
HeaderValues ==
    {V_123, V_abc_path, V_bare, V_different, V_short, V_shifted, V_ff, V_prefix_ff}

Entry(n, v) == [name |-> n, value |-> v]

RECURSIVE SeqsUpTo(_, _)
SeqsUpTo(S, n) ==
    IF n = 0 THEN {<<>>}
    ELSE LET shorter == SeqsUpTo(S, n - 1)
         IN  shorter \cup {Append(s, e) : s \in {t \in shorter : Len(t) = n - 1}, e \in S}

----------------------------------------------------------------------------
(* LoginResult *)

NoResult == [kind |-> "none", token |-> <<>>, msg |-> ""]
Ok(tok) == [kind |-> "Ok", token |-> tok, msg |-> ""]
Err(k, m) == [kind |-> k, token |-> <<>>, msg |-> m]

----------------------------------------------------------------------------
(* parse_response_header *)

\* HeaderValue::to_str succeeds only on visible ASCII and tab
IsVisibleAscii(b) == (b >= 32 /\ b < 127) \/ b = 9

\* mutant: a lossy decoding that never fails
ToStrOk_lossy(v) == TRUE

ToStrOk(v) == \A i \in 1..Len(v) : IsVisibleAscii(v[i])

MatchesAt(s, pat, i) ==
    /\ i + Len(pat) <= Len(s)
    /\ \A j \in 1..Len(pat) : s[i + j] = pat[j]

\* str::find: the 0-based index of the first occurrence, -1 for None
Find(s, pat) ==
    LET hits == {i \in 0..Len(s) : MatchesAt(s, pat, i)}
    IN  IF hits = {} THEN -1 ELSE CHOOSE i \in hits : \A k \in hits : i <= k

\* mutant: the prefix accepted anywhere in the value
IsSessionCookie_anywhere(cookie_str) == Find(cookie_str, CookiePrefix) # -1

IsSessionCookie(cookie_str) == Find(cookie_str, CookiePrefix) = 0

\* mutant: a single-value lookup, only the first value under the name
GetAll_first(hs, n) ==
    LET at == {i \in 1..Len(hs) : hs[i].name = n}
    IN  IF at = {} THEN <<>>
        ELSE <<hs[CHOOSE i \in at : \A k \in at : i <= k].value>>

\* HeaderMap::get_all: the values appended under the name, in order
RECURSIVE GetAll(_, _)
GetAll(hs, n) ==
    IF hs = <<>> THEN <<>>
    ELSE IF Head(hs).name = n THEN <<Head(hs).value>> \o GetAll(Tail(hs), n)
    ELSE GetAll(Tail(hs), n)

\* the for loop of parse_response_header over the values from index i on
RECURSIVE ScanFrom(_, _)
ScanFrom(vals, i) ==
    IF i > Len(vals) THEN Err("UserSessionNotFound", "")
    ELSE IF ~ToStrOk(vals[i]) THEN Err("HeaderParseError", "")
    ELSE IF IsSessionCookie(vals[i]) THEN Ok(vals[i])
    ELSE ScanFrom(vals, i + 1)

AllValues(hs) == [i \in 1..Len(hs) |-> hs[i].value]

Reverse(vals) == [i \in 1..Len(vals) |-> vals[Len(vals) + 1 - i]]

\* mutant: the values of every header scanned, whatever its name
parse_response_header_any_name(response_header) ==
    ScanFrom(AllValues(response_header), 1)

\* mutant: the values scanned from the last to the first
parse_response_header_last(response_header) ==
    ScanFrom(Reverse(GetAll(response_header, SET_COOKIE)), 1)

parse_response_header(response_header) ==
    ScanFrom(GetAll(response_header, SET_COOKIE), 1)

----------------------------------------------------------------------------
(* ScanSpec: the scanner applied to every bounded header collection *)

Calls == 1..NumCalls

Moved == [mail_tel |-> <<>>, password |-> <<>>]
NoParams == [password |-> <<>>, mail_tel |-> <<>>]
NoClient == [redirect |-> "", user_agent |-> "", owner |-> 0]
NoResponse == [received |-> FALSE, status |-> 0, headers |-> <<>>]

\* the Credentials value the caller of call c passes in
CredentialsOf(c) == [mail_tel |-> <<"mail_tel", c>>, password |-> <<"password", c>>]

LoginIdle ==
    /\ credentials = [c \in Calls |-> CredentialsOf(c)]
    /\ params = [c \in Calls |-> NoParams]
    /\ client = [c \in Calls |-> NoClient]
    /\ pc = [c \in Calls |-> "Idle"]
    /\ wire = [c \in Calls |-> <<>>]
    /\ res = [c \in Calls |-> NoResponse]
    /\ scans = [c \in Calls |-> 0]
    /\ result = [c \in Calls |-> NoResult]

AllHeaders ==
    SeqsUpTo({Entry(n, v) : n \in HeaderNames, v \in HeaderValues}, MaxHdrs)

ScanInit ==
    /\ headers \in AllHeaders
    /\ out = NoResult
    /\ LoginIdle

Scan ==
    /\ out = NoResult
    /\ out' = parse_response_header(headers)
    /\ UNCHANGED <<headers, loginVars>>

ScanNext == Scan

ScanSpec == ScanInit /\ [][ScanNext]_vars

----------------------------------------------------------------------------
(* login: LoginSpec runs one call, Spec runs NumCalls calls concurrently *)

login_url == "https://account.nicovideo.jp/login/redirector"
user_agent == "toof-jp/niconico"

\* the transport errors send() can report, by their message
TransportErrors == {"dns error", "operation timed out"}
\* the error Client::builder().build() can report
BuildErrors == {"builder error"}

\* the status codes of the responses (the redirect of an accepted login,
\* the page of a rejected one, a server error)
Statuses == {302, 200, 503}

Response(st, hs) == [received |-> TRUE, status |-> st, headers |-> hs]

\* Spec: the header entries a response is made of
RespEntries ==
    {Entry(SET_COOKIE, V_123), Entry(SET_COOKIE, V_different), Entry(SET_COOKIE, V_ff)}
RespHeaders == SeqsUpTo(RespEntries, RespLen)
RespStatuses == {302}

\* mutant: one credentials value shared by all calls
Arg_shared(c) == credentials[1]

\* line 94: the credentials argument of call c
Arg(c) == credentials[c]

\* lines 98-100: the form body
BuildParams(cred) == [password |-> cred.password, mail_tel |-> cred.mail_tel]

\* lines 102-105: the client every call builds for itself
BuildClient(c) == [redirect |-> "none", user_agent |-> user_agent, owner |-> c]

\* lines 107-108: the request built on a client
PostForm(cl, url, form) ==
    [method |-> "POST", url |-> url, user_agent |-> cl.user_agent,
     redirect |-> cl.redirect, form |-> form, via |-> cl.owner]

\* mutant: the request sent a second time
IssuePost_twice(w, req) == Append(Append(w, req), req)

\* line 109: send() puts the request on the client's connection
IssuePost(w, req) == Append(w, req)

\* mutant: the build error reported as a network error
ClientError_as_network(e) == Err("NetworkError", e)

\* line 106: map_err(LoginError::ClientError)
ClientError(e) == Err("ClientError", e)

\* mutant: the transport error reported as a missing cookie
NetworkError_as_not_found(e) == Err("UserSessionNotFound", "")

\* line 111: map_err(|e| LoginError::NetworkError(e.to_string()))
NetworkError(e) == Err("NetworkError", e)

\* mutant: a response with an error status rejected before the scan
LoginReturn_checked(response) ==
    IF response.status >= 400 THEN Err("NetworkError", "status")
    ELSE parse_response_header(response.headers)

\* line 113: the response's headers go to the scanner, its result is returned
LoginReturn(response) == parse_response_header(response.headers)

\* the state of the login flow a returned result stands for
StateOf(r) ==
    CASE r.kind = "Ok" -> "TokenFound"
      [] r.kind = "UserSessionNotFound" -> "TokenAbsent"
      [] r.kind = "HeaderParseError" -> "HeaderMalformed"
      [] r.kind = "NetworkError" -> "NetworkFailed"
      [] r.kind = "ClientError" -> "ClientBuildFailed"

Init ==
    /\ headers = <<>>
    /\ out = NoResult
    /\ LoginIdle

\* lines 95-106 when build() fails: the ? returns before post/send
ClientBuildFail(c) ==
    /\ pc[c] = "Idle"
    /\ \E e \in BuildErrors :
         /\ result' = [result EXCEPT ![c] = ClientError(e)]
         /\ pc' = [pc EXCEPT ![c] = StateOf(ClientError(e))]
    /\ params' = [params EXCEPT ![c] = BuildParams(Arg(c))]
    /\ credentials' = [credentials EXCEPT ![c] = Moved]
    /\ UNCHANGED <<client, wire, res, scans, scanVars>>

\* lines 95-110 when build() succeeds: the request is sent and the call awaits
SendRequest(c) ==
    /\ pc[c] = "Idle"
    /\ LET form == BuildParams(Arg(c))
           cl == BuildClient(c)
       IN  /\ params' = [params EXCEPT ![c] = form]
           /\ client' = [client EXCEPT ![c] = cl]
           /\ wire' = [wire EXCEPT ![c] = IssuePost(wire[c], PostForm(cl, login_url, form))]
    /\ credentials' = [credentials EXCEPT ![c] = Moved]
    /\ pc' = [pc EXCEPT ![c] = "RequestSent"]
    /\ UNCHANGED <<res, scans, result, scanVars>>

\* lines 110-111: the awaited send fails, the ? returns NetworkError
SendFail(c) ==
    /\ pc[c] = "RequestSent"
    /\ \E e \in TransportErrors :
         /\ result' = [result EXCEPT ![c] = NetworkError(e)]
         /\ pc' = [pc EXCEPT ![c] = StateOf(NetworkError(e))]
    /\ UNCHANGED <<credentials, params, client, wire, res, scans, scanVars>>

\* line 110: the awaited send yields a response
ResponseArrives(c, sts, hss) ==
    /\ pc[c] = "RequestSent"
    /\ \E st \in sts, hs \in hss : res' = [res EXCEPT ![c] = Response(st, hs)]
    /\ pc' = [pc EXCEPT ![c] = "ResponseReceived"]
    /\ UNCHANGED <<credentials, params, client, wire, scans, result, scanVars>>

\* line 113: the scanner runs on the response and login returns its result
ScanResponse(c) ==
    /\ pc[c] = "ResponseReceived"
    /\ scans' = [scans EXCEPT ![c] = scans[c] + 1]
    /\ result' = [result EXCEPT ![c] = LoginReturn(res[c])]
    /\ pc' = [pc EXCEPT ![c] = StateOf(LoginReturn(res[c]))]
    /\ UNCHANGED <<credentials, params, client, wire, res, scanVars>>

\* a step of call c, the server answering with a status out of sts and a
\* header collection out of hss
Step(c, sts, hss) ==
    \/ ClientBuildFail(c)
    \/ SendRequest(c)
    \/ SendFail(c)
    \/ ResponseArrives(c, sts, hss)
    \/ ScanResponse(c)

Next == \E c \in Calls : Step(c, RespStatuses, RespHeaders)

Spec == Init /\ [][Next]_vars

LoginNext == Step(1, Statuses, AllHeaders)

LoginSpec == Init /\ [][LoginNext]_vars

----------------------------------------------------------------------------
(* Vocabulary of the properties, stated on the header collection itself *)

Terminal == {"TokenFound", "TokenAbsent", "HeaderMalformed", "NetworkFailed",
             "ClientBuildFailed"}

\* the positions of the Set-Cookie entries of a collection
SetCookieAt(hs) == {i \in 1..Len(hs) : hs[i].name = SET_COOKIE}

Decodable(v) == \A i \in 1..Len(v) : v[i] \in (32..126) \cup {9}

StartsWithPrefix(v) ==
    /\ Len(v) >= Len(CookiePrefix)
    /\ SubSeq(v, 1, Len(CookiePrefix)) = CookiePrefix

\* the Set-Cookie entries whose text starts with the prefix
MatchingAt(hs) ==
    {i \in SetCookieAt(hs) : Decodable(hs[i].value) /\ StartsWithPrefix(hs[i].value)}

\* the Set-Cookie entries that cannot be decoded as text
UndecodableAt(hs) == {i \in SetCookieAt(hs) : ~Decodable(hs[i].value)}

Earliest(S) == CHOOSE i \in S : \A k \in S : i <= k

Before(S, i) == {k \in S : k < i}

\* what a scan of the collection is to return: decided by the earliest entry
\* that is undecodable or matches
Expected(hs) ==
    LET stop == MatchingAt(hs) \cup UndecodableAt(hs)
    IN  IF stop = {} THEN Err("UserSessionNotFound", "")
        ELSE IF Earliest(stop) \in UndecodableAt(hs) THEN Err("HeaderParseError", "")
        ELSE Ok(hs[Earliest(stop)].value)

Scanned == out # NoResult

----------------------------------------------------------------------------
(* Header Scanner (ScanSpec) *)

\* C1, as stated: whenever the collection holds a Set-Cookie value whose text
\* starts with the prefix, the scanner succeeds and the token is such a value,
\* unmodified.
C1_Original ==
    (Scanned /\ MatchingAt(headers) # {}) =>
        /\ out.kind = "Ok"
        /\ \E i \in MatchingAt(headers) : out.token = headers[i].value

\* C1, amended: the same, provided no undecodable Set-Cookie value stands
\* before the earliest matching one.
C1_MatchSucceeds ==
    (/\ Scanned
     /\ MatchingAt(headers) # {}
     /\ Before(UndecodableAt(headers), Earliest(MatchingAt(headers))) = {}) =>
        /\ out.kind = "Ok"
        /\ \E i \in MatchingAt(headers) : out.token = headers[i].value

C1_Witness ==
    /\ Scanned
    /\ \E i \in MatchingAt(headers) : headers[i].value = V_abc_path
    /\ UndecodableAt(headers) # {}
    /\ out = Ok(V_abc_path)

\* C2, as stated: whenever the collection holds a Set-Cookie value that cannot
\* be decoded, the scanner returns HeaderParseError.
C2_Original ==
    (Scanned /\ UndecodableAt(headers) # {}) => out.kind = "HeaderParseError"

\* C2, amended: whenever an undecodable Set-Cookie value stands before every
\* matching one, the scanner returns HeaderParseError and no token, also when
\* a matching value follows.
C2_UndecodableFirstAborts ==
    (/\ Scanned
     /\ UndecodableAt(headers) # {}
     /\ Before(MatchingAt(headers), Earliest(UndecodableAt(headers))) = {}) =>
        /\ out.kind = "HeaderParseError"
        /\ out.token = <<>>

C2_Witness ==
    /\ Scanned
    /\ UndecodableAt(headers) # {}
    /\ MatchingAt(headers) # {}
    /\ Earliest(UndecodableAt(headers)) < Earliest(MatchingAt(headers))
    /\ out.kind = "HeaderParseError"

\* C3, as stated: whenever no Set-Cookie value starts with the prefix, the
\* scanner returns UserSessionNotFound.
C3_Original ==
    (/\ Scanned
     /\ \A i \in SetCookieAt(headers) : ~StartsWithPrefix(headers[i].value)) =>
        out.kind = "UserSessionNotFound"

\* C3, amended: whenever no Set-Cookie value starts with the prefix and every
\* Set-Cookie value is decodable, the scanner returns UserSessionNotFound.
C3_NoMatchNotFound ==
    (/\ Scanned
     /\ \A i \in SetCookieAt(headers) : ~StartsWithPrefix(headers[i].value)
     /\ UndecodableAt(headers) = {}) =>
        out.kind = "UserSessionNotFound"

C3_Witness ==
    /\ Scanned
    /\ \E i \in SetCookieAt(headers) : headers[i].value = V_different
    /\ \E i \in 1..Len(headers) :
         headers[i].name = LOCATION /\ headers[i].value = V_123
    /\ out.kind = "UserSessionNotFound"

\* C4, as stated: whenever several decodable Set-Cookie values start with the
\* prefix, the scanner returns the earliest of them in header order.
C4_Original ==
    (Scanned /\ Cardinality(MatchingAt(headers)) >= 2) =>
        out = Ok(headers[Earliest(MatchingAt(headers))].value)

\* C4, amended: the same, provided no undecodable Set-Cookie value stands
\* before the earliest matching one; decodable values that do not match,
\* standing before it, do not stop the scan.
C4_FirstMatchWins ==
    (/\ Scanned
     /\ Cardinality(MatchingAt(headers)) >= 2
     /\ Before(UndecodableAt(headers), Earliest(MatchingAt(headers))) = {}) =>
        out = Ok(headers[Earliest(MatchingAt(headers))].value)

C4_Witness ==
    /\ Scanned
    /\ Cardinality(MatchingAt(headers)) >= 2
    /\ Before(SetCookieAt(headers), Earliest(MatchingAt(headers))) # {}
    /\ \E i \in MatchingAt(headers) :
         Len(headers[i].value) > Len(headers[Earliest(MatchingAt(headers))].value)
    /\ out = Ok(headers[Earliest(MatchingAt(headers))].value)

----------------------------------------------------------------------------
(* Login Client (LoginSpec, Spec) *)

\* C5: every token login returns, the scanner's, starts with the prefix at
\* position 0.
C5_TokenHasPrefix ==
    \A c \in Calls :
        result[c].kind = "Ok" =>
            /\ StartsWithPrefix(result[c].token)
            /\ pc[c] = "TokenFound"

C5_Witness ==
    \E c \in Calls :
        /\ result[c].kind = "Ok"
        /\ \E i \in SetCookieAt(res[c].headers) : res[c].headers[i].value = V_shifted
        /\ \E i \in 1..Len(res[c].headers) : res[c].headers[i].value = V_short

IsLoginPost(req) ==
    /\ req.method = "POST"
    /\ req.url = login_url
    /\ req.user_agent = user_agent
    /\ req.redirect = "none"

\* C6, as stated: a call that has returned has issued exactly one POST,
\* whatever its outcome.
C6_Original ==
    \A c \in Calls : pc[c] \in Terminal => Len(wire[c]) = 1

\* C6, amended: a call issues at most one POST; a call that has returned has
\* issued exactly one, unless it returned ClientError, and then none; no
\* outcome is followed by a further request.
C6_PostsOfReturned ==
    \A c \in Calls :
        /\ Len(wire[c]) <= 1
        /\ \A i \in 1..Len(wire[c]) : IsLoginPost(wire[c][i])
        /\ pc[c] \in Terminal \ {"ClientBuildFailed"} => Len(wire[c]) = 1
        /\ pc[c] = "ClientBuildFailed" => Len(wire[c]) = 0
        /\ pc[c] = "Idle" => Len(wire[c]) = 0

C6_NoPostAfterReturn ==
    [][\A c \in Calls : pc[c] \in Terminal => wire'[c] = wire[c]]_vars

C6_OnePost == []C6_PostsOfReturned /\ C6_NoPostAfterReturn

C6_Witness ==
    \E c \in Calls : pc[c] = "NetworkFailed" /\ Len(wire[c]) = 1

\* C7: a call whose send failed returns NetworkError with the transport's
\* message, never ran the scanner and received no response; a call returns
\* UserSessionNotFound only with a response received and scanned to its end.
C7_NetworkVsNotFound ==
    \A c \in Calls :
        /\ pc[c] = "NetworkFailed" =>
              /\ result[c].kind = "NetworkError"
              /\ result[c].msg \in TransportErrors
              /\ result[c].token = <<>>
              /\ scans[c] = 0
              /\ ~res[c].received
        /\ result[c].kind = "NetworkError" => pc[c] = "NetworkFailed"
        /\ result[c].kind = "UserSessionNotFound" =>
              /\ res[c].received
              /\ scans[c] = 1
              /\ MatchingAt(res[c].headers) = {}
              /\ UndecodableAt(res[c].headers) = {}

C7_Witness ==
    \E c \in Calls :
        /\ pc[c] = "NetworkFailed"
        /\ result[c] = Err("NetworkError", "dns error")

\* C8: once a response was received, whatever its status, the result login
\* returns is the scan of that response's whole header collection.
C8_ResultIsScan ==
    \A c \in Calls :
        /\ (res[c].received /\ pc[c] \in Terminal) =>
              /\ result[c] = Expected(res[c].headers)
              /\ pc[c] = StateOf(Expected(res[c].headers))
        /\ pc[c] = "ResponseReceived" => result[c] = NoResult

C8_Witness ==
    \E c \in Calls :
        /\ res[c].received
        /\ res[c].status = 503
        /\ Len(res[c].headers) = MaxHdrs
        /\ res[c].headers[1].name = LOCATION
        /\ result[c] = Ok(res[c].headers[MaxHdrs].value)

\* what a call may change: its own slots
Slots(c) ==
    <<credentials[c], params[c], client[c], pc[c], wire[c], res[c], scans[c], result[c]>>

\* C9: under every interleaving a call works on its own credentials, its own
\* client and its own response, its result is what its own response or
\* transport failure decides, and a step of one call changes nothing of
\* another call's.
C9_OwnState ==
    \A c \in Calls :
        /\ credentials[c] \in {CredentialsOf(c), Moved}
        /\ params[c] \in {NoParams, BuildParams(CredentialsOf(c))}
        /\ client[c] \in {NoClient, BuildClient(c)}
        /\ \A i \in 1..Len(wire[c]) :
              /\ wire[c][i].form = BuildParams(CredentialsOf(c))
              /\ wire[c][i].via = c
        /\ (pc[c] \in Terminal /\ res[c].received) =>
              result[c] = Expected(res[c].headers)
        /\ (pc[c] \in Terminal /\ ~res[c].received) =>
              result[c].kind \in {"NetworkError", "ClientError"}
        /\ result[c].kind = "Ok" =>
              \E i \in SetCookieAt(res[c].headers) :
                  result[c].token = res[c].headers[i].value

C9_StepsAreLocal ==
    [][\E c \in Calls : \A d \in Calls \ {c} : Slots(d)' = Slots(d)]_vars

C9_NoSharedState == []C9_OwnState /\ C9_StepsAreLocal

C9_Witness ==
    \E c \in Calls, d \in Calls :
        /\ c # d
        /\ pc[c] = "TokenFound"
        /\ pc[d] = "TokenAbsent"
        /\ Len(wire[c]) = 1
        /\ Len(wire[d]) = 1
        /\ wire[c][1].form # wire[d][1].form

\* the transitions of the flow as stated
Stated(a, b) ==
    \/ a = "Idle" /\ b = "RequestSent"
    \/ a = "RequestSent" /\ b \in {"ResponseReceived", "NetworkFailed", "ClientBuildFailed"}
    \/ a = "ResponseReceived" /\ b \in {"TokenFound", "TokenAbsent", "HeaderMalformed"}

\* the transitions of the flow, ClientBuildFailed entered from Idle
Flow(a, b) ==
    \/ a = "Idle" /\ b \in {"RequestSent", "ClientBuildFailed"}
    \/ a = "RequestSent" /\ b \in {"ResponseReceived", "NetworkFailed"}
    \/ a = "ResponseReceived" /\ b \in {"TokenFound", "TokenAbsent", "HeaderMalformed"}

\* C10, as stated: every move of a call is one of the stated transitions,
\* ClientBuildFailed being entered from RequestSent.
C10_Original ==
    [][\A c \in Calls : pc'[c] # pc[c] => Stated(pc[c], pc'[c])]_vars

\* C10, amended: every move of a call is one of the stated transitions, except
\* that ClientBuildFailed is entered from Idle, before any request is sent; a
\* call is in a terminal state exactly when it has returned, with the result
\* kind of that state, and a terminal state is never left.
C10_StateOfResult ==
    \A c \in Calls :
        /\ pc[c] \in {"Idle", "RequestSent", "ResponseReceived"} \cup Terminal
        /\ pc[c] \in Terminal <=> result[c] # NoResult
        /\ pc[c] = "TokenFound" <=> result[c].kind = "Ok"
        /\ pc[c] = "TokenAbsent" <=> result[c].kind = "UserSessionNotFound"
        /\ pc[c] = "HeaderMalformed" <=> result[c].kind = "HeaderParseError"
        /\ pc[c] = "NetworkFailed" <=> result[c].kind = "NetworkError"
        /\ pc[c] = "ClientBuildFailed" <=> result[c].kind = "ClientError"
        /\ pc[c] = "ClientBuildFailed" => Len(wire[c]) = 0
        /\ pc[c] \in {"RequestSent", "ResponseReceived"} => Len(wire[c]) = 1
        /\ pc[c] = "ResponseReceived" <=> (res[c].received /\ result[c] = NoResult)

C10_Moves ==
    [][\A c \in Calls :
          /\ pc'[c] # pc[c] => Flow(pc[c], pc'[c])
          /\ pc[c] \in Terminal => Slots(c)' = Slots(c)]_vars

C10_StateMachine == []C10_StateOfResult /\ C10_Moves

C10_Witness ==
    \E c \in Calls :
        /\ pc[c] = "ClientBuildFailed"
        /\ result[c] = Err("ClientError", "builder error")
        /\ wire[c] = <<>>

====
